---------------------------- MODULE Spec2Model ----------------------------
(***************************************************************************)
(* Gotify: the playback queue kept in the Streamlit session state          *)
(* (src/app.py, src/components/*.py) and the AudioManager it drives        *)
(* (src/utils/audio_manager.py).                                           *)
(*                                                                         *)
(* One action of the model is one run of the Streamlit script (main() of   *)
(* src/app.py): at most one widget is true in a run, the page is rendered  *)
(* first and render_player() last.  A handler that calls st.rerun() ends   *)
(* the run where it stands.  The backend's "finished" notification is the  *)
(* only step that is not a script run; it is taken between runs.           *)
(*                                                                         *)
(* Handlers are operators on a record s of the session fields, so that the *)
(* calls a run makes compose in the order of the code.                     *)
(*                                                                         *)
(* player.py and search.py call audio_manager.play_track(track); the       *)
(* AudioManager under src/ names that operation play(track).  The model    *)
(* binds the call to it.  player.py's audio_manager.player.is_playing()    *)
(* has no code under src/: it is the backend's isPlaying() of spec.md 4.1. *)
(***************************************************************************)
EXTENDS Integers, Sequences, FiniteSets, TLC

(* ------------------------------ bounds ------------------------------- *)

\* files in one batch of the uploader
MaxBatch == 2

\* tracks in the library file at session start
NumLocal == 2
\* tracks a search returns
NumRemote == 2

(* ------------------------------ tracks ------------------------------- *)

\* Python's None, in the shape of a track so that it compares with one
None == [source |-> "none", key |-> 0, album |-> 0, shape |-> "none"]

\* a library entry as render_file_upload builds it: one artist, two albums
LocalTrack(i) ==
  [source |-> "local", key |-> i, album |-> (IF 2 * i <= NumLocal + 1 THEN 1 ELSE 2),
   shape |-> "library"]

\* a YouTube search result
YouTubeResult(i) == [source |-> "youtube", key |-> i, album |-> 0, shape |-> "result"]

\* the search results on display: display_track_card(track, source="youtube")
SearchResults == {YouTubeResult(i) : i \in 1..NumRemote}

\* the name a playlist is created under: a quick-start template's
PlaylistNames == {"Liked Songs"}

\* data/local_library.json at session start, as load_local_library reads it:
\* written by this program (distinct file paths), or holding an entry twice;
\* in the order the "Sort by" of the library page leaves
LibraryFiles ==
  { [i \in 1..NumLocal |-> LocalTrack(i)],
    [i \in 1..NumLocal |-> LocalTrack(IF i = 1 THEN 1 ELSE i - 1)] }

\* a list no playlist holds: a literal, a copy, or one a view has built
OwnList == "(own list)"

\* i-th element of a Python list (0-based) held as a sequence
At(list, i) == list[i + 1]

\* list.index-like: the 0-based positions of a list
Positions(list) == 0..(Len(list) - 1)

\* the longest queue a play command can build
MaxQueueLen == IF NumLocal > NumRemote THEN NumLocal ELSE NumRemote

(* ------------------------------- state ------------------------------- *)

VARIABLES
  current_track,        \* st.session_state.current_track (None or a track)
  is_playing,           \* st.session_state.is_playing
  current_playlist,     \* st.session_state.current_playlist: the queue
  queue_list,           \* the list object current_playlist is bound to: a
                        \* playlist's name when it is that playlist's own list
  current_track_index,  \* st.session_state.current_track_index (0-based)
  repeat_mode,          \* st.session_state.get('repeat_mode', 'off'): the key is
                        \* read through get alone, and absent until first set
  song_finished,        \* st.session_state.song_finished: the pending flag
  audio_manager,        \* the AudioManager's fields
  ended,                \* backend transport: the loaded media ran to its end
  music_volume,         \* backend: the volume of pygame.mixer.music
  volume,               \* st.session_state.volume
  local_library,        \* st.session_state.local_library["tracks"]
  playlists,            \* st.session_state.playlists: name -> list of tracks
  library_file,         \* data/local_library.json: the "tracks" it holds
  playlists_file,       \* data/playlists.json: name -> list of tracks (no
                        \* name while the file does not exist)
  confirm_buttons,      \* the page on display: the confirm buttons the last
                        \* run drew, as <<button, playlist name>>
  search_results,       \* st.session_state.search_results
  search,               \* the perform_search call of the run, and the
                        \* SpotifyClient it made
  events,               \* what the script run just ended did, in order; empty
                        \* once the next run has begun
  streak,               \* history: next_track calls in a row that began at
                        \* index 0 with no other command since; -1: no such row
  owed,                 \* history: notifications minus next_track(autoplay=True) calls
  finished_track        \* history: the track the pending notification is about

sessionVars == <<current_track, is_playing, current_playlist, queue_list,
                 current_track_index, repeat_mode, song_finished>>
storeVars == <<local_library, playlists, library_file, playlists_file,
               confirm_buttons>>
ghostVars == <<streak, owed, finished_track>>
searchVars == <<search_results, search>>
volumeVars == <<music_volume, volume>>
vars == <<current_track, is_playing, current_playlist, queue_list,
          current_track_index, repeat_mode, song_finished, audio_manager, ended,
          music_volume, volume, local_library, playlists, library_file,
          playlists_file, confirm_buttons, search_results, search, events, streak,
          owed, finished_track>>

\* the fields a handler reads and writes, as one record; halted: st.rerun() or
\* an early return has ended the script run
S ==
  [current_track |-> current_track, is_playing |-> is_playing,
   current_playlist |-> current_playlist, queue_list |-> queue_list,
   current_track_index |-> current_track_index, repeat_mode |-> repeat_mode,
   song_finished |-> song_finished, audio_manager |-> audio_manager,
   ended |-> ended, music_volume |-> music_volume, volume |-> volume,
   playlists |-> playlists, local_library |-> local_library,
   library_file |-> library_file, playlists_file |-> playlists_file,
   confirm_buttons |-> {},
   events |-> <<>>, halted |-> FALSE]

Ev(op, track) == [op |-> op, track |-> track]
Emit(s, op, track) == [s EXCEPT !.events = Append(@, Ev(op, track))]
Ops(evs) == {evs[i].op : i \in 1..Len(evs)}
Count(evs, op) == Cardinality({i \in 1..Len(evs) : evs[i].op = op})

\* st.rerun(): the run ends here
st_rerun(s) == [s EXCEPT !.halted = TRUE]


\* st.rerun() at a place the run reaches only if no handler ended it before
Rerun(s) == IF s.halted THEN s ELSE st_rerun(s)

(* --------------------------- AudioManager ---------------------------- *)

\* volumes are counted in steps of 0.05, the step of the player's slider:
\* 1.0 is FullVolume, the 0.7 of __init__ and of app.py is DefaultVolume
FullVolume == 20
DefaultVolume == 14

\* AudioManager.__init__: pygame.mixer.init() succeeds or fails
AudioManagerInit(initialized) ==
  [is_initialized |-> initialized, current_file |-> 0, is_playing |-> FALSE,
   is_paused |-> FALSE, volume |-> DefaultVolume]

\* pygame.mixer.music.load: new media, and the music volume back at full
mixer_load(s) ==
  [Emit(s, "mixer_load", None) EXCEPT !.music_volume = FullVolume, !.ended = FALSE]

\* pygame.mixer.music.set_volume(level)
mixer_set_volume(s, level) ==
  [Emit(s, "mixer_set_volume", None) EXCEPT !.music_volume = level]

\* pygame.mixer.music.play()
mixer_play(s) == Emit(s, "mixer_play", None)

\* _play_local_file after a load that raised nothing
play_local_file(s, track) ==
  [mixer_play(mixer_set_volume(mixer_load(s), s.audio_manager.volume)) EXCEPT
     !.audio_manager.current_file = track.key,
     !.audio_manager.is_playing = TRUE,
     !.audio_manager.is_paused = FALSE]

\* AudioManager.play(track); loads: the file exists and pygame loads it.
\* Every path that returns False prints why: the "am_failed" step.
\* A remote track has no stream_url, and _play_stream returns False anyway.
AudioManager_play(s, track, loads) ==
  LET called == Emit(s, "am_play", track)
      failed == Emit(called, "am_failed", track)
  IN
  IF ~s.audio_manager.is_initialized THEN failed
  ELSE IF track.source = "local"
       THEN (IF loads THEN play_local_file(called, track) ELSE failed)
       ELSE failed

\* pause() that leaves is_playing as it was
AudioManager_pause_keeps_playing(s) ==
  LET called == Emit(s, "am_pause", None) IN
  IF s.audio_manager.is_initialized /\ s.audio_manager.is_playing
  THEN [called EXCEPT !.audio_manager.is_paused = TRUE]
  ELSE called

\* AudioManager.pause()
AudioManager_pause(s) ==
  LET called == Emit(s, "am_pause", None) IN
  IF s.audio_manager.is_initialized /\ s.audio_manager.is_playing
  THEN [called EXCEPT !.audio_manager.is_paused = TRUE,
                      !.audio_manager.is_playing = FALSE]
  ELSE called

\* AudioManager.resume()
AudioManager_resume(s) ==
  LET called == Emit(s, "am_resume", None) IN
  IF s.audio_manager.is_initialized /\ s.audio_manager.is_paused
  THEN [called EXCEPT !.audio_manager.is_paused = FALSE,
                      !.audio_manager.is_playing = TRUE]
  ELSE called

\* AudioManager.stop()
AudioManager_stop(s) ==
  LET called == Emit(s, "am_stop", None) IN
  IF s.audio_manager.is_initialized
  THEN [called EXCEPT !.audio_manager.is_playing = FALSE,
                      !.audio_manager.is_paused = FALSE,
                      !.audio_manager.current_file = 0]
  ELSE called

\* AudioManager.cleanup(): the mixer is stopped and quit, the flags stay
AudioManager_cleanup(s) ==
  LET called == Emit(s, "am_cleanup", None) IN
  IF s.audio_manager.is_initialized
  THEN [called EXCEPT !.audio_manager.is_initialized = FALSE]
  ELSE called

\* max(0.0, min(1.0, volume))
clamp(level) ==
  LET min == IF FullVolume <= level THEN FullVolume ELSE level
  IN IF 0 >= min THEN 0 ELSE min

\* set_volume that stores what it is given
AudioManager_set_volume_unclamped(s, level) ==
  LET s1 == [Emit(s, "am_set_volume", None) EXCEPT !.audio_manager.volume = level]
  IN IF s.audio_manager.is_initialized
     THEN mixer_set_volume(s1, s1.audio_manager.volume)
     ELSE s1

\* AudioManager.set_volume(volume)
AudioManager_set_volume(s, level) ==
  LET s1 == [Emit(s, "am_set_volume", None) EXCEPT
               !.audio_manager.volume = clamp(level)]
  IN IF s.audio_manager.is_initialized
     THEN mixer_set_volume(s1, s1.audio_manager.volume)
     ELSE s1

\* AudioManager.get_volume()
AudioManager_get_volume(s) == s.audio_manager.volume

\* audio_manager.player.is_playing(): the transport plays and has not run out
BackendIsPlaying(s) == s.audio_manager.is_playing /\ ~s.ended

(* ------------------------- components/player.py ---------------------- *)

\* set_volume(): the callback of the volume slider
set_volume(s, volume_slider) ==
  AudioManager_set_volume([s EXCEPT !.volume = volume_slider], volume_slider)

\* play_track(resume)
play_track(s, resume, loads) ==
  IF s.current_track # None
  THEN LET s1 == IF resume /\ ~BackendIsPlaying(s)
                 THEN AudioManager_resume(s)
                 ELSE AudioManager_play(s, s.current_track, loads)
       IN st_rerun([s1 EXCEPT !.is_playing = TRUE])
  ELSE s

\* pause_track()
pause_track(s) ==
  st_rerun([AudioManager_pause(s) EXCEPT !.is_playing = FALSE])

\* st.session_state.get('repeat_mode', 'off')
get_repeat_mode(s) == s.repeat_mode

\* next_track with the bound of the advance one too far: at the last index it
\* moves the index past the queue
next_track_past_end(s, autoplay, loads) ==
  LET s0 == Emit(s, IF autoplay THEN "next_track_auto" ELSE "next_track", None)
      playlist_len == Len(s.current_playlist)
      next_index == s.current_track_index + 1
  IN
  IF s.current_playlist = <<>> THEN s0
  ELSE IF get_repeat_mode(s) = "track" /\ autoplay THEN play_track(s0, FALSE, loads)
  ELSE IF next_index < playlist_len
       THEN play_track([s0 EXCEPT !.current_track_index = next_index,
                                  !.current_track = At(s.current_playlist, next_index)],
                       FALSE, loads)
  ELSE IF get_repeat_mode(s) = "playlist"
       THEN play_track([s0 EXCEPT !.current_track_index = 0,
                                  !.current_track = At(s.current_playlist, 0)],
                       FALSE, loads)
  ELSE play_track([s0 EXCEPT !.current_track_index = next_index], FALSE, loads)

\* next_track that goes back to the first track at the end of the queue
\* whatever the repeat mode
next_track_always_wraps(s, autoplay, loads) ==
  LET s0 == Emit(s, IF autoplay THEN "next_track_auto" ELSE "next_track", None)
      playlist_len == Len(s.current_playlist)
      next_index == s.current_track_index + 1
  IN
  IF s.current_playlist = <<>> THEN s0
  ELSE IF get_repeat_mode(s) = "track" /\ autoplay THEN play_track(s0, FALSE, loads)
  ELSE IF next_index < playlist_len
       THEN play_track([s0 EXCEPT !.current_track_index = next_index,
                                  !.current_track = At(s.current_playlist, next_index)],
                       FALSE, loads)
  ELSE play_track([s0 EXCEPT !.current_track_index = 0,
                             !.current_track = At(s.current_playlist, 0)],
                  FALSE, loads)

\* next_track without the wrap of repeat mode playlist
next_track_never_wraps(s, autoplay, loads) ==
  LET s0 == Emit(s, IF autoplay THEN "next_track_auto" ELSE "next_track", None)
      playlist_len == Len(s.current_playlist)
      next_index == s.current_track_index + 1
  IN
  IF s.current_playlist = <<>> THEN s0
  ELSE IF get_repeat_mode(s) = "track" /\ autoplay THEN play_track(s0, FALSE, loads)
  ELSE IF next_index < playlist_len
       THEN play_track([s0 EXCEPT !.current_track_index = next_index,
                                  !.current_track = At(s.current_playlist, next_index)],
                       FALSE, loads)
  ELSE Emit(s0, "warn_end_of_playlist", None)

\* next_track without the replay of repeat mode track
next_track_no_replay(s, autoplay, loads) ==
  LET s0 == Emit(s, IF autoplay THEN "next_track_auto" ELSE "next_track", None)
      playlist_len == Len(s.current_playlist)
      next_index == s.current_track_index + 1
  IN
  IF s.current_playlist = <<>> THEN s0
  ELSE IF next_index < playlist_len
       THEN play_track([s0 EXCEPT !.current_track_index = next_index,
                                  !.current_track = At(s.current_playlist, next_index)],
                       FALSE, loads)
  ELSE IF get_repeat_mode(s) = "playlist"
       THEN play_track([s0 EXCEPT !.current_track_index = 0,
                                  !.current_track = At(s.current_playlist, 0)],
                       FALSE, loads)
  ELSE Emit(s0, "warn_end_of_playlist", None)

\* next_track that replays under repeat mode track whoever asked
next_track_replays_manual(s, autoplay, loads) ==
  LET s0 == Emit(s, IF autoplay THEN "next_track_auto" ELSE "next_track", None)
      playlist_len == Len(s.current_playlist)
      next_index == s.current_track_index + 1
  IN
  IF s.current_playlist = <<>> THEN s0
  ELSE IF get_repeat_mode(s) = "track" THEN play_track(s0, FALSE, loads)
  ELSE IF next_index < playlist_len
       THEN play_track([s0 EXCEPT !.current_track_index = next_index,
                                  !.current_track = At(s.current_playlist, next_index)],
                       FALSE, loads)
  ELSE IF get_repeat_mode(s) = "playlist"
       THEN play_track([s0 EXCEPT !.current_track_index = 0,
                                  !.current_track = At(s.current_playlist, 0)],
                       FALSE, loads)
  ELSE Emit(s0, "warn_end_of_playlist", None)

\* next_track(autoplay)
next_track(s, autoplay, loads) ==
  LET s0 == Emit(s, IF autoplay THEN "next_track_auto" ELSE "next_track", None)
      playlist_len == Len(s.current_playlist)
      next_index == s.current_track_index + 1
  IN
  IF s.current_playlist = <<>> THEN s0
  ELSE IF get_repeat_mode(s) = "track" /\ autoplay THEN play_track(s0, FALSE, loads)
  ELSE IF next_index < playlist_len
       THEN play_track([s0 EXCEPT !.current_track_index = next_index,
                                  !.current_track = At(s.current_playlist, next_index)],
                       FALSE, loads)
  ELSE IF get_repeat_mode(s) = "playlist"
       THEN play_track([s0 EXCEPT !.current_track_index = 0,
                                  !.current_track = At(s.current_playlist, 0)],
                       FALSE, loads)
  ELSE Emit(s0, "warn_end_of_playlist", None)

\* previous_track that wraps to the last track at index 0
previous_track_wraps(s, loads) ==
  LET s0 == Emit(s, "previous_track", None)
      current_index == s.current_track_index
      target == IF current_index > 0 THEN current_index - 1
                ELSE Len(s.current_playlist) - 1
  IN
  IF s.current_playlist = <<>> THEN s0
  ELSE play_track([s0 EXCEPT !.current_track_index = target,
                             !.current_track = At(s.current_playlist, target)],
                  FALSE, loads)

\* previous_track that moves the index and leaves the current track
previous_track_keeps_track(s, loads) ==
  LET s0 == Emit(s, "previous_track", None)
      current_index == s.current_track_index
  IN
  IF s.current_playlist = <<>> THEN s0
  ELSE IF current_index > 0
       THEN play_track([s0 EXCEPT !.current_track_index = current_index - 1],
                       FALSE, loads)
  ELSE Emit(s0, "warn_already_first", None)

\* previous_track()
previous_track(s, loads) ==
  LET s0 == Emit(s, "previous_track", None)
      current_index == s.current_track_index
  IN
  IF s.current_playlist = <<>> THEN s0
  ELSE IF current_index > 0
       THEN play_track([s0 EXCEPT !.current_track_index = current_index - 1,
                                  !.current_track =
                                     At(s.current_playlist, current_index - 1)],
                       FALSE, loads)
  ELSE Emit(s0, "warn_already_first", None)

\* the orders random.shuffle can leave a list of n elements in
Orders(n) ==
  {p \in [1..n -> 1..n] : \A i, j \in 1..n : i # j => p[i] # p[j]}

\* a list reordered by a permutation of its positions
Shuffled(list, perm) == [i \in 1..Len(list) |-> list[perm[i]]]

\* the 0-based positions where a list holds the track
Matches(list, track) == {i \in Positions(list) : At(list, i) = track}

\* the smallest element of a non-empty set of numbers
Min(set) == CHOOSE x \in set : \A y \in set : x <= y

\* shuffle_playlist that keeps the index it had
shuffle_playlist_keeps_index(s, perm) ==
  LET s0 == Emit(s, "shuffle_playlist", None) IN
  IF s.current_playlist = <<>> THEN s0
  ELSE [s0 EXCEPT !.current_playlist = Shuffled(s.current_playlist, perm),
                  !.queue_list = OwnList]

\* shuffle_playlist(); perm: what random.shuffle did
shuffle_playlist(s, perm) ==
  LET s0 == Emit(s, "shuffle_playlist", None) IN
  IF s.current_playlist = <<>> THEN s0
  ELSE LET shuffled == Shuffled(s.current_playlist, perm)
           found == Matches(shuffled, s.current_track)
       IN [s0 EXCEPT !.current_playlist = shuffled,
                     !.queue_list = OwnList,
                     !.current_track_index =
                        IF found # {} THEN Min(found) ELSE @]

\* modes of toggle_repeat
modes == <<"off", "playlist", "track">>

\* toggle_repeat that alternates between the first two modes
toggle_repeat_two_modes(s) ==
  LET current_mode == get_repeat_mode(s)
      current_index == Min({i \in Positions(modes) : At(modes, i) = current_mode})
      next_index == (current_index + 1) % 2
  IN st_rerun([Emit(s, "toggle_repeat", None) EXCEPT
                 !.repeat_mode = At(modes, next_index)])

\* toggle_repeat(); modes.index never raises: the mode is always one of modes
toggle_repeat(s) ==
  LET current_mode == get_repeat_mode(s)
      current_index == Min({i \in Positions(modes) : At(modes, i) = current_mode})
      next_index == (current_index + 1) % Len(modes)
  IN st_rerun([Emit(s, "toggle_repeat", None) EXCEPT
                 !.repeat_mode = At(modes, next_index)])

\* render_player, lines 36-50: the previous, pause / play and next buttons
transport_buttons(s, click, loads) ==
  IF click = "previous" THEN previous_track(s, loads)
  ELSE IF click = "pause" /\ s.is_playing
       THEN pause_track(Emit(s, "pause_track", None))
  ELSE IF click = "play" /\ ~s.is_playing
       THEN play_track(Emit(s, "play_click", None), TRUE, loads)
  ELSE IF click = "next" THEN next_track(s, FALSE, loads)
  ELSE s

\* render_player, lines 75-84: the shuffle and repeat buttons
secondary_buttons(s, click, perm) ==
  IF s.halted THEN s
  ELSE IF click = "shuffle" THEN shuffle_playlist(s, perm)
  ELSE IF click = "repeat" THEN toggle_repeat(s)
  ELSE s

\* render_player, lines 97-104: the positions of the queue the run draws a
\* button for; none in a run that has ended before, at line 99 included
queue_buttons(s) ==
  IF s.halted \/ s.is_playing THEN {} ELSE Positions(s.current_playlist)

\* the queue's buttons without the assignment of current_track
queue_section_keeps_track(s, click, i, loads) ==
  IF s.halted THEN s
  ELSE IF s.is_playing THEN st_rerun(s)
  ELSE IF s.current_playlist # <<>> /\ click = "queue" /\ i \in Positions(s.current_playlist)
       THEN play_track([Emit(s, "queue_select", None) EXCEPT
                          !.current_track_index = i],
                       FALSE, loads)
  ELSE s

\* render_player, lines 97-113: the rerun while playing, then the queue's buttons
queue_section(s, click, i, loads) ==
  IF s.halted THEN s
  ELSE IF s.is_playing THEN st_rerun(s)
  ELSE IF click = "queue" /\ i \in queue_buttons(s)
       THEN play_track([Emit(s, "queue_select", None) EXCEPT
                          !.current_track_index = i,
                          !.current_track = At(s.current_playlist, i)],
                       FALSE, loads)
  ELSE s

\* the song_finished handling without the reset of the flag
drain_song_finished_keeps_flag(s, loads) ==
  Rerun(next_track(s, TRUE, loads))

\* the song_finished handling of render_player, lines 21-25
drain_song_finished(s, loads) ==
  Rerun(next_track(Emit([s EXCEPT !.song_finished = FALSE], "clear_flag", None),
                   TRUE, loads))

\* render_player(); click: the one widget of the player that is true in this
\* run ("none" when the run has another cause), i: the queue button's position
render_player(s, click, i, loads, perm) ==
  IF s.halted THEN s
  ELSE IF s.current_track = None THEN s
  ELSE IF s.song_finished THEN drain_song_finished(s, loads)
  ELSE queue_section(
         secondary_buttons(transport_buttons(s, click, loads), click, perm),
         click, i, loads)

(* ------------------------ components/library.py ---------------------- *)

\* play_single_track(track)
play_single_track(s, track) ==
  [Emit(s, "play_single_track", track) EXCEPT
     !.current_track = track,
     !.current_playlist = <<track>>,
     !.queue_list = OwnList,
     !.current_track_index = 0,
     !.is_playing = TRUE]

\* play_artist_tracks that puts the tracks behind the queue it finds
play_artist_tracks_appends(s, tracks) ==
  [Emit(s, "play_artist_tracks", None) EXCEPT
     !.current_playlist = s.current_playlist \o tracks,
     !.queue_list = OwnList,
     !.current_track_index = 0,
     !.current_track = At(tracks, 0),
     !.is_playing = TRUE]

\* play_artist_tracks(tracks); the views hand it non-empty lists only
play_artist_tracks(s, tracks) ==
  [Emit(s, "play_artist_tracks", None) EXCEPT
     !.current_playlist = tracks,
     !.queue_list = OwnList,
     !.current_track_index = 0,
     !.current_track = At(tracks, 0),
     !.is_playing = TRUE]

\* the elements of a list that satisfy a test, in order
RECURSIVE Filter(_, _)
Filter(list, keep) ==
  IF list = <<>> THEN <<>>
  ELSE IF Head(list) \in keep THEN <<Head(list)>> \o Filter(Tail(list), keep)
  ELSE Filter(Tail(list), keep)

\* render_albums_view: the tracks of one album, in library order
album_tracks(library, album) ==
  Filter(library, {library[k] : k \in {j \in 1..Len(library) : library[j].album = album}})

\* the albums of the library
Albums(library) == {library[k].album : k \in 1..Len(library)}

\* the "Sort by" options of render_all_tracks that tell tracks of the model
\* apart; a track's title is its file's name, artist and date_added are the
\* same for all, so "Artist" and "Date Added" leave the order as "Date Added"
SortOptions == {"Title", "Album", "Date Added"}

\* the sort key of a track under an option
sort_key(track, sort_by) ==
  IF sort_by = "Title" THEN track.key
  ELSE IF sort_by = "Album" THEN track.album
  ELSE 0

\* list.sort(key=...): stable, ascending
RECURSIVE Sorted(_, _)
Sorted(list, sort_by) ==
  IF list = <<>> THEN <<>>
  ELSE LET n == Len(list)
           rest == Sorted(SubSeq(list, 1, n - 1), sort_by)
           last == list[n]
           before == Cardinality({k \in 1..(n - 1) :
                        sort_key(rest[k], sort_by) <= sort_key(last, sort_by)})
       IN SubSeq(rest, 1, before) \o <<last>> \o SubSeq(rest, before + 1, n - 1)

\* render_all_tracks() with no search term: filtered_tracks is the library's
\* own list, and sorting it sorts the library in place
render_all_tracks(s, sort_by) ==
  [s EXCEPT !.local_library = Sorted(@, sort_by)]

\* save_local_library(): the whole library goes to the file
save_local_library(s) ==
  [Emit(s, "save_local_library", None) EXCEPT !.library_file = s.local_library]

\* track_data of render_file_upload for one uploaded file
upload_track_data(file) ==
  [source |-> "local", key |-> file.name, album |-> file.album, shape |-> "library"]

\* the loop's turn without the look for an entry of the same file_path
process_upload_no_check(s, file) ==
  LET data == upload_track_data(file)
      s1 == IF file.fails THEN Emit(s, "error_processing", data)
            ELSE [Emit(s, "added_to_library", data) EXCEPT
                    !.local_library = Append(@, data)]
  IN save_local_library(s1)

\* one turn of the loop of render_file_upload (lines 181-218); file.fails:
\* saving the file raises, which the except clause reports
process_upload(s, file) ==
  LET data == upload_track_data(file)
      existing_track == \E k \in 1..Len(s.local_library) :
                           s.local_library[k].key = data.key
      s1 == IF file.fails THEN Emit(s, "error_processing", data)
            ELSE IF ~existing_track
                 THEN [Emit(s, "added_to_library", data) EXCEPT
                         !.local_library = Append(@, data)]
            ELSE Emit(s, "warn_already_exists", data)
  IN save_local_library(s1)

\* render_file_upload(): "Add to Library" pressed with uploaded_files chosen
RECURSIVE render_file_upload(_, _)
render_file_upload(s, uploaded_files) ==
  IF uploaded_files = <<>> THEN s
  ELSE render_file_upload(process_upload(s, Head(uploaded_files)),
                          Tail(uploaded_files))

(* ----------------------- components/playlists.py --------------------- *)

\* st.session_state.playlists.get(playlist_name, [])
playlists_get(s, playlist_name) ==
  IF playlist_name \in DOMAIN s.playlists THEN s.playlists[playlist_name] ELSE <<>>

\* play_playlist that makes the playlist's own list the queue
play_playlist_shares_list(s, playlist_name) ==
  LET tracks == playlists_get(s, playlist_name)
      s0 == Emit(s, "play_playlist", None)
  IN IF tracks = <<>> THEN Emit(s0, "warn_playlist_empty", None)
     ELSE [s0 EXCEPT !.current_playlist = tracks,
                     !.queue_list = playlist_name,
                     !.current_track_index = 0,
                     !.current_track = At(tracks, 0),
                     !.is_playing = TRUE]

\* play_playlist(playlist_name); tracks.copy() is a list of the queue's own
play_playlist(s, playlist_name) ==
  LET tracks == playlists_get(s, playlist_name)
      s0 == Emit(s, "play_playlist", None)
  IN IF tracks = <<>> THEN Emit(s0, "warn_playlist_empty", None)
     ELSE [s0 EXCEPT !.current_playlist = tracks,
                     !.queue_list = OwnList,
                     !.current_track_index = 0,
                     !.current_track = At(tracks, 0),
                     !.is_playing = TRUE]

\* shuffle_and_play_playlist(playlist_name); perm: what random.shuffle did
shuffle_and_play_playlist(s, playlist_name, perm) ==
  LET tracks == playlists_get(s, playlist_name)
      s0 == Emit(s, "shuffle_and_play_playlist", None)
  IN IF tracks = <<>> THEN Emit(s0, "warn_playlist_empty", None)
     ELSE LET shuffled_tracks == Shuffled(tracks, perm)
          IN [s0 EXCEPT !.current_playlist = shuffled_tracks,
                        !.queue_list = OwnList,
                        !.current_track_index = 0,
                        !.current_track = At(shuffled_tracks, 0),
                        !.is_playing = TRUE]

\* play_track_from_playlist(track, playlist_name, track_index)
play_track_from_playlist(s, track, playlist_name, track_index) ==
  [Emit(s, "play_track_from_playlist", track) EXCEPT
     !.current_playlist = playlists_get(s, playlist_name),
     !.queue_list = OwnList,
     !.current_track_index = track_index,
     !.current_track = track,
     !.is_playing = TRUE]

\* save_playlists(): the whole of st.session_state.playlists goes to the file
save_playlists(s) ==
  [Emit(s, "save_playlists", None) EXCEPT !.playlists_file = s.playlists]

\* st.session_state.playlists[name] = []
with_empty_playlist(s, name) ==
  [s EXCEPT !.playlists = [n \in DOMAIN s.playlists \cup {name} |->
                             IF n = name THEN <<>> ELSE s.playlists[n]]]

\* create_template_playlist that does not look for the name
create_template_playlist_overwrites(s, name) ==
  st_rerun(save_playlists(
    with_empty_playlist(Emit(s, "create_template_playlist", None), name)))

\* create_template_playlist(name, description)
create_template_playlist(s, name) ==
  LET s0 == Emit(s, "create_template_playlist", None) IN
  IF name \in DOMAIN s.playlists
  THEN Emit(s0, "error_playlist_exists", None)
  ELSE st_rerun(save_playlists(with_empty_playlist(s0, name)))

\* render_create_playlist: the form submitted with playlist_name; the blank
\* name is ""
create_playlist_form(s, playlist_name) ==
  LET s0 == Emit(s, "create_playlist_form", None) IN
  IF playlist_name = "" THEN Emit(s0, "error_enter_name", None)
  ELSE IF playlist_name \in DOMAIN s.playlists
       THEN Emit(s0, "error_playlist_exists", None)
  ELSE st_rerun(save_playlists(with_empty_playlist(s0, playlist_name)))

\* a playlist's list changed in place (swap, pop, append): the queue shows
\* the change when it is bound to that same list
in_place(s, playlist_name, list) ==
  [s EXCEPT !.playlists[playlist_name] = list,
            !.current_playlist = IF s.queue_list = playlist_name THEN list ELSE @]

\* a list with the elements at 0-based positions i and j exchanged
Swapped(list, i, j) ==
  [k \in 1..Len(list) |->
     IF k = i + 1 THEN list[j + 1] ELSE IF k = j + 1 THEN list[i + 1] ELSE list[k]]

\* a list without the element at 0-based position i: list.pop(i)
Popped(list, i) ==
  [k \in 1..(Len(list) - 1) |-> IF k <= i THEN list[k] ELSE list[k + 1]]

\* move_track_up(playlist_name, track_index)
move_track_up(s, playlist_name, track_index) ==
  LET tracks == playlists_get(s, playlist_name)
      s0 == Emit(s, "move_track_up", None)
  IN IF track_index > 0
     THEN st_rerun(save_playlists(
            in_place(s0, playlist_name,
                     Swapped(tracks, track_index, track_index - 1))))
     ELSE Emit(s0, "warn_already_top", None)

\* remove_track_from_playlist(playlist_name, track_index)
remove_track_from_playlist(s, playlist_name, track_index) ==
  LET tracks == playlists_get(s, playlist_name)
      s0 == Emit(s, "remove_track_from_playlist", None)
  IN IF 0 <= track_index /\ track_index < Len(tracks)
     THEN st_rerun(save_playlists(
            in_place(s0, playlist_name, Popped(tracks, track_index))))
     ELSE Emit(s0, "error_invalid_index", None)

\* the playlists without one name: del st.session_state.playlists[name]
Without(store, name) == [n \in DOMAIN store \ {name} |-> store[n]]

\* delete_playlist(playlist_name): the warning and its buttons are drawn, and
\* "Yes, Delete" deletes in a run in which it is the widget that is true
delete_playlist(s, playlist_name, click) ==
  LET s0 == [Emit(s, "delete_playlist", None) EXCEPT
               !.confirm_buttons = @ \cup {<<"confirm_delete", playlist_name>>}]
  IN IF click = "confirm_delete"
     THEN st_rerun(save_playlists(
            [Emit(s0, "deleted", None) EXCEPT
               !.playlists = Without(@, playlist_name)]))
     ELSE s0

\* the store after playlists[new_name] = playlists.pop(old_name)
Renamed(store, old_name, new_name) ==
  [n \in (DOMAIN store \ {old_name}) \cup {new_name} |->
     IF n = new_name THEN store[old_name] ELSE store[n]]

\* rename_playlist(old_name): the text input and "Confirm Rename" are drawn;
\* new_name: what the input holds in this run
rename_playlist(s, old_name, new_name, click) ==
  LET s0 == [Emit(s, "rename_playlist", None) EXCEPT
               !.confirm_buttons = @ \cup {<<"confirm_rename", old_name>>}]
  IN IF click = "confirm_rename"
     THEN IF new_name # "" /\ new_name # old_name
          THEN IF new_name \in DOMAIN s.playlists
               THEN Emit(s0, "error_playlist_exists", None)
               ELSE st_rerun(save_playlists(
                      [Emit(s0, "renamed", None) EXCEPT
                         !.playlists = Renamed(@, old_name, new_name),
                         !.queue_list = IF @ = old_name THEN new_name ELSE @]))
          ELSE Emit(s0, "warn_enter_different_name", None)
     ELSE s0

\* render_playlist_list, lines 41-47: the Rename and Delete buttons of one
\* playlist; click: the one widget that is true in this run
playlist_buttons(s, click, playlist_name, new_name) ==
  IF click = "rename" THEN rename_playlist(s, playlist_name, new_name, click)
  ELSE IF click = "delete" THEN delete_playlist(s, playlist_name, click)
  ELSE s

(* ------------------------ components/search.py ----------------------- *)

\* playable_track of play_track_from_search for source == 'youtube'
playable_track(track) == [track EXCEPT !.shape = "playable"]

\* play_track_from_search(track, 'youtube'); the except clause has nothing to
\* catch: the AudioManager reports a failed load by its return value
play_track_from_search(s, track, loads) ==
  LET playable == playable_track(track)
      s0 == [Emit(s, "play_track_from_search", playable) EXCEPT
               !.current_track = playable,
               !.current_playlist = <<playable>>,
               !.queue_list = OwnList,
               !.current_track_index = 0]
  IN AudioManager_play(s0, playable, loads)

\* the form's handler without the look for a track of the same id
add_track_to_playlist_form_no_check(s, track, source, selected_playlist) ==
  LET data == [source |-> source, key |-> track.key, album |-> track.album,
               shape |-> "playlist"]
      existing == IF selected_playlist \in DOMAIN s.playlists
                  THEN s.playlists[selected_playlist] ELSE <<>>
      s0 == Emit(s, "add_track_to_playlist", data)
  IN st_rerun(in_place(s0, selected_playlist, Append(existing, data)))

\* track_data of add_track_to_playlist_form
track_data(track, source) ==
  [source |-> source, key |-> track.key, album |-> track.album, shape |-> "playlist"]

\* add_track_to_playlist_form(track, source), the form submitted for a playlist
\* of the select box
add_track_to_playlist_form(s, track, source, selected_playlist) ==
  LET data == track_data(track, source)
      existing == playlists_get(s, selected_playlist)
      track_exists == \E k \in 1..Len(existing) : existing[k].key = data.key
      s0 == Emit(s, "add_track_to_playlist", data)
  IN st_rerun(IF track_exists THEN Emit(s0, "warn_track_exists", data)
              ELSE in_place(s0, selected_playlist, Append(existing, data)))

\* the two providers of perform_search
Providers == {"spotify", "youtube"}

\* results of perform_search before a provider has answered
EmptyResults == [p \in Providers |-> <<>>]

\* st.session_state.search_results = None
NoResults == [p \in {} |-> <<>>]

\* no perform_search under way; access_token: the SpotifyClient holds one,
\* frames: the calls of SpotifyClient.search on the stack, requests and
\* refreshes: HTTP requests and token refreshes of the search
NoSearch ==
  [pc |-> "idle", include_spotify |-> FALSE, include_youtube |-> FALSE,
   configured |-> FALSE, access_token |-> FALSE, frames |-> 0, requests |-> 0,
   refreshes |-> 0, results |-> EmptyResults, spotify_got |-> <<>>,
   youtube_got |-> <<>>]

(* ------------------------------ src/app.py --------------------------- *)

\* initialize_session_state on the first run of a session
Init ==
  /\ current_track = None
  /\ is_playing = FALSE
  /\ current_playlist = <<>>
  /\ queue_list = OwnList
  /\ current_track_index = 0
  /\ repeat_mode = "off"
  /\ song_finished = FALSE
  /\ \E initialized \in BOOLEAN : audio_manager = AudioManagerInit(initialized)
  /\ ended = FALSE
  /\ music_volume = FullVolume
  /\ volume = DefaultVolume
  /\ local_library \in LibraryFiles
  /\ library_file = local_library
  /\ playlists = [n \in {} |-> <<>>]
  /\ playlists_file = [n \in {} |-> <<>>]
  /\ confirm_buttons = {}
  /\ search_results = NoResults
  /\ search = NoSearch
  /\ events = <<>>
  /\ streak = 0
  /\ owed = 0
  /\ finished_track = None

\* the commands other than next_track, as the events name them
OtherCommands ==
  {"previous_track", "pause_track", "play_click", "shuffle_playlist", "toggle_repeat",
   "queue_select", "play_single_track", "play_artist_tracks", "play_playlist",
   "shuffle_and_play_playlist", "play_track_from_playlist", "play_track_from_search",
   "create_template_playlist", "add_track_to_playlist"}

\* the next_track calls of a run
NextCalls(evs) == Count(evs, "next_track") + Count(evs, "next_track_auto")

\* the end of a script run: the session state it leaves, and the history
Commit(r) ==
  /\ current_track' = r.current_track
  /\ is_playing' = r.is_playing
  /\ current_playlist' = r.current_playlist
  /\ queue_list' = r.queue_list
  /\ current_track_index' = r.current_track_index
  /\ repeat_mode' = r.repeat_mode
  /\ song_finished' = r.song_finished
  /\ audio_manager' = r.audio_manager
  /\ ended' = r.ended
  /\ music_volume' = r.music_volume
  /\ volume' = r.volume
  /\ playlists' = r.playlists
  /\ local_library' = r.local_library
  /\ library_file' = r.library_file
  /\ playlists_file' = r.playlists_file
  /\ confirm_buttons' = r.confirm_buttons
  /\ events' = r.events
  /\ UNCHANGED searchVars
  /\ owed' = owed - Count(r.events, "next_track_auto")
  /\ finished_track' = IF r.song_finished THEN finished_track ELSE None
  /\ streak' = IF Ops(r.events) \cap OtherCommands # {}
               THEN (IF r.current_track_index = 0 THEN 0 ELSE -1)
               ELSE IF streak = -1 THEN -1
               ELSE IF streak + NextCalls(r.events) > MaxQueueLen + 1
                    THEN MaxQueueLen + 1
                    ELSE streak + NextCalls(r.events)

\* what a load can come to in a run whose queue is of the track's source (a
\* queue is all library entries or all search results): a remote track, or
\* any track on an uninitialised AudioManager, never loads
LoadOutcomes(track) ==
  IF audio_manager.is_initialized /\ track.source = "local" THEN BOOLEAN ELSE {FALSE}

\* the outcomes of the load a pending notification's next_track would make
DrainOutcomes(s) ==
  IF s.song_finished /\ ~s.halted THEN LoadOutcomes(s.current_track) ELSE {FALSE}

\* main() with a page handler's result s: render_player comes last in the run
PageRun(s) ==
  /\ events = <<>>
  /\ \E loads \in DrainOutcomes(s) :
       \E r \in {render_player(s, "none", 0, loads, <<>>)} : Commit(r)

\* a run in which one widget of the player is true; the widget was drawn by
\* the run before, so a track is current
PlayerRun(click, i, perm) ==
  /\ events = <<>>
  /\ current_track # None
  /\ \E loads \in (IF song_finished \/ click \in {"previous", "play", "next", "queue"}
                    THEN LoadOutcomes(current_track) ELSE {FALSE}) :
       \E r \in {render_player(S, click, i, loads, perm)} : Commit(r)

\* a run no widget caused (st.rerun() of the run before, or navigation) while
\* the notification is pending; without one such a run changes nothing
Tick == /\ song_finished
        /\ PageRun(S)

ClickPrevious == PlayerRun("previous", 0, <<>>)

ClickPause == /\ is_playing
              /\ PlayerRun("pause", 0, <<>>)

ClickPlay == /\ ~is_playing
             /\ PlayerRun("play", 0, <<>>)

ClickNext == PlayerRun("next", 0, <<>>)

ClickShuffle ==
  \E perm \in Orders(Len(current_playlist)) : PlayerRun("shuffle", 0, perm)

ClickRepeat == PlayerRun("repeat", 0, <<>>)

\* the queue's buttons are drawn only by a run that got past line 99; a
\* position the loop of line 103 draws no button for has no widget to be true
ClickQueue ==
  /\ ~is_playing
  /\ \E i \in 0..MaxQueueLen : PlayerRun("queue", i, <<>>)

\* render_library up to the views: the session as render_all_tracks leaves it
\* under the "Sort by" options
LibraryPage == {render_all_tracks(S, sort_by) : sort_by \in SortOptions}

\* display_library_track / the views' per-track buttons
LibraryPlaySingle ==
  \E s \in LibraryPage :
    \E k \in 1..Len(s.local_library) :
       PageRun(play_single_track(s, s.local_library[k]))

\* render_artists_view: "Play All" (every library entry has the one artist)
LibraryPlayArtist ==
  /\ local_library # <<>>
  /\ \E s \in LibraryPage :
       PageRun(play_artist_tracks(s, s.local_library))

\* render_albums_view: "Play Album"
LibraryPlayAlbum ==
  \E s \in LibraryPage :
    \E album \in Albums(s.local_library) :
       PageRun(play_artist_tracks(s, album_tracks(s.local_library, album)))

\* render_playlist_list: "Play All"
PlaylistPlayAll ==
  \E name \in DOMAIN playlists :
     PageRun(play_playlist(S, name))

\* render_playlist_list: "Shuffle"
PlaylistShuffle ==
  \E name \in DOMAIN playlists :
    \E perm \in Orders(Len(playlists[name])) :
       PageRun(shuffle_and_play_playlist(S, name, perm))

\* display_playlist_track: the play button of one row
PlaylistPlayTrack ==
  \E name \in DOMAIN playlists :
    \E index \in Positions(playlists[name]) :
       PageRun(play_track_from_playlist(S, At(playlists[name], index), name, index))

\* render_create_playlist: a quick-start template
CreatePlaylist ==
  \E name \in PlaylistNames :
     PageRun(create_template_playlist(S, name))

\* display_track_card: "Play now"
SearchPlay ==
  \E track \in SearchResults :
    \E loads \in LoadOutcomes(playable_track(track)) :
       PageRun(play_track_from_search(S, track, loads))

\* display_track_card: "Add to playlist", then the form submitted
SearchAddToPlaylist ==
  \E track \in SearchResults, name \in DOMAIN playlists :
     PageRun(add_track_to_playlist_form(S, track, "youtube", name))

\* the backend's notification, once per track that plays to its end: it sets
\* the pending flag and nothing else of the session
TrackFinished ==
  /\ events = <<>>
  /\ audio_manager.is_playing
  /\ ~ended
  /\ ended' = TRUE
  /\ song_finished' = TRUE
  /\ owed' = owed + 1
  /\ finished_track' = current_track
  /\ UNCHANGED <<current_track, is_playing, current_playlist, queue_list,
                 current_track_index, repeat_mode, audio_manager, storeVars,
                 volumeVars, searchVars, events, streak>>

\* the next run starts on an empty page: what the run before showed is gone
ClearPage ==
  /\ events # <<>>
  /\ search.pc = "idle"
  /\ events' = <<>>
  /\ UNCHANGED <<sessionVars, storeVars, volumeVars, searchVars, ghostVars,
                 audio_manager, ended>>

Next ==
  \/ ClearPage
  \/ Tick
  \/ ClickPrevious
  \/ ClickPause
  \/ ClickPlay
  \/ ClickNext
  \/ ClickShuffle
  \/ ClickRepeat
  \/ ClickQueue
  \/ LibraryPlaySingle
  \/ LibraryPlayArtist
  \/ LibraryPlayAlbum
  \/ PlaylistPlayAll
  \/ PlaylistShuffle
  \/ PlaylistPlayTrack
  \/ CreatePlaylist
  \/ SearchPlay
  \/ SearchAddToPlaylist
  \/ TrackFinished

Spec == Init /\ [][Next]_vars

(* ------------------- the library and playlist stores ------------------ *)

\* Sessions in which nothing is played: the pages that change the library
\* and the playlists.  render_player returns at line 14 in every run.

\* the names the create form is submitted with: blank, a template's, another
FormNames == {"", "Liked Songs", "Road Trip"}

\* the files the uploader can hold: a name, the album tag, whether saving raises
UploadedFiles ==
  [name : 1..NumLocal, album : {1, 2}, fails : BOOLEAN]

\* uploaded_files: one file up to MaxBatch files, the same name twice included
UploadBatches ==
  UNION {[1..n -> UploadedFiles] : n \in 1..MaxBatch}

\* data/playlists.json as an earlier session may have left it
PlaylistFiles ==
  {[n \in {} |-> <<>>],
   [n \in {"Liked Songs"} |-> <<track_data(YouTubeResult(1), "youtube")>>]}

\* data/local_library.json without two entries of one file_path
StoreLibraryFiles == {<<>>, <<LocalTrack(NumLocal)>>}

StoreInit ==
  /\ current_track = None
  /\ is_playing = FALSE
  /\ current_playlist = <<>>
  /\ queue_list = OwnList
  /\ current_track_index = 0
  /\ repeat_mode = "off"
  /\ song_finished = FALSE
  /\ audio_manager = AudioManagerInit(TRUE)
  /\ ended = FALSE
  /\ music_volume = FullVolume
  /\ volume = DefaultVolume
  /\ local_library \in StoreLibraryFiles
  /\ library_file = local_library
  /\ playlists = [n \in {} |-> <<>>]
  /\ playlists_file \in PlaylistFiles
  /\ confirm_buttons = {}
  /\ search_results = NoResults
  /\ search = NoSearch
  /\ events = <<>>
  /\ streak = 0
  /\ owed = 0
  /\ finished_track = None

\* render_library: the views, then render_file_upload: "Add to Library"
UploadFiles ==
  \E s \in LibraryPage, uploaded_files \in UploadBatches :
     PageRun(render_file_upload(s, uploaded_files))

\* render_create_playlist: the form submitted
CreatePlaylistForm ==
  \E playlist_name \in FormNames :
     PageRun(create_playlist_form(S, playlist_name))

\* display_playlist_track: "Move up"
PlaylistMoveUp ==
  \E name \in DOMAIN playlists :
    \E index \in Positions(playlists[name]) :
       PageRun(move_track_up(S, name, index))

\* display_playlist_track: "Remove"
PlaylistRemove ==
  \E name \in DOMAIN playlists :
    \E index \in Positions(playlists[name]) :
       PageRun(remove_track_from_playlist(S, name, index))

StoreNext ==
  \/ ClearPage
  \/ UploadFiles
  \/ CreatePlaylistForm
  \/ CreatePlaylist
  \/ SearchAddToPlaylist
  \/ PlaylistMoveUp
  \/ PlaylistRemove

StoreSpec == StoreInit /\ [][StoreNext]_vars

(* ------------------- playlists played and edited --------------------- *)

\* Sessions that play playlists of search results and edit them while they
\* are queued.  A search result has no stream to load, so nothing plays to
\* its end and no notification comes.

\* the names typed into the input of rename_playlist
RenameInputs == {"Liked Songs", "Road Trip"}

\* render_playlist_list: "Delete"
ClickDelete ==
  \E name \in DOMAIN playlists :
     PageRun(playlist_buttons(S, "delete", name, name))

\* "Yes, Delete", drawn by the run before, is pressed: its run
ClickConfirmDelete ==
  \E name \in DOMAIN playlists :
     /\ <<"confirm_delete", name>> \in confirm_buttons
     /\ PageRun(playlist_buttons(Emit(S, "click_confirm_delete", None),
                                 "confirm_delete", name, name))

\* render_playlist_list: "Rename"; the input shows the old name
ClickRename ==
  \E name \in DOMAIN playlists :
     PageRun(playlist_buttons(S, "rename", name, name))

\* "Confirm Rename", drawn by the run before, is pressed with a name typed
\* into the input: its run
ClickConfirmRename ==
  \E name \in DOMAIN playlists, new_name \in RenameInputs :
     /\ <<"confirm_rename", name>> \in confirm_buttons
     /\ PageRun(playlist_buttons(Emit(S, "click_confirm_rename", None),
                                 "confirm_rename", name, new_name))

PlaylistNext ==
  \/ ClearPage
  \/ ClickDelete
  \/ ClickConfirmDelete
  \/ ClickRename
  \/ ClickConfirmRename
  \/ ClickPrevious
  \/ ClickPause
  \/ ClickPlay
  \/ ClickNext
  \/ ClickShuffle
  \/ ClickQueue
  \/ PlaylistPlayAll
  \/ PlaylistShuffle
  \/ PlaylistPlayTrack
  \/ CreatePlaylist
  \/ SearchAddToPlaylist
  \/ PlaylistMoveUp
  \/ PlaylistRemove

PlaylistSpec == Init /\ [][PlaylistNext]_vars

(* ------------- the search: search.py, spotify_client.py -------------- *)

\* One step is one HTTP request of the search, or the code around it; the
\* steps of one perform_search call belong to one script run.

\* the calls of SpotifyClient.search the interpreter lets nest
RecursionLimit == 3

\* a Spotify search result
SpotifyResult(i) == [source |-> "spotify", key |-> i, album |-> 0, shape |-> "result"]

\* what _parse_search_results makes of a 200 answer
SpotifyLists == {<<>>, <<SpotifyResult(1)>>}

\* what YouTubeClient.search returns: the parsed entries, or [] as well when
\* the request failed or raised
YouTubeLists == {<<>>, <<YouTubeResult(1)>>}

\* the token endpoint's answers to _get_access_token
TokenAnswers == {"granted", "refused", "raises"}

\* the search endpoint's answers to requests.get
SearchAnswers == {"200", "401", "500", "raises"}

\* perform_search past its Spotify block
after_spotify(c) ==
  [c EXCEPT !.pc = IF c.include_youtube THEN "youtube" ELSE "return",
            !.frames = 0]

\* a Spotify block that lets the exception go
except_spotify_reraises(c) == [c EXCEPT !.pc = "raised"]

\* the except clause of the Spotify block: results['spotify'] stays []
except_spotify(c) == after_spotify(c)

\* results['spotify'] = spotify_client.search(query): the innermost call's
\* list, handed up by every call above it
spotify_returns(c, list) ==
  after_spotify([c EXCEPT !.results["spotify"] = list])

\* _get_access_token(): one POST; a token that was held stays when none comes
get_access_token(c, answer) ==
  [c EXCEPT !.requests = @ + 1,
            !.access_token = IF answer = "granted" THEN TRUE ELSE @]

\* SpotifyClient.search up to its request
search_enter(c) ==
  IF ~c.access_token THEN spotify_returns(c, <<>>)
  ELSE [c EXCEPT !.pc = "spotify_get", !.frames = @ + 1]

\* return self.search(...) inside the try: a call too deep raises
\* RecursionError, which the except clause of the calling frame turns into []
search_retry(c) ==
  IF c.frames >= RecursionLimit THEN spotify_returns(c, <<>>) ELSE search_enter(c)

\* a step of the search: the call's state and what it shows
SearchStep(c, op) ==
  /\ search' = c
  /\ events' = Append(events, Ev(op, None))
  /\ UNCHANGED <<sessionVars, storeVars, ghostVars, volumeVars, audio_manager, ended>>

\* render_search: the form submitted with a query; perform_search begins
SubmitSearch ==
  /\ events = <<>>
  /\ search.pc = "idle"
  /\ \E include_spotify, include_youtube \in BOOLEAN :
       SearchStep([NoSearch EXCEPT
                     !.pc = IF include_spotify THEN "spotify_client"
                            ELSE IF include_youtube THEN "youtube" ELSE "return",
                     !.include_spotify = include_spotify,
                     !.include_youtube = include_youtube],
                  "perform_search")
  /\ UNCHANGED search_results

\* SpotifyClient(): with both credentials in the environment it asks for a token
SpotifyClientInit ==
  /\ search.pc = "spotify_client"
  /\ \E configured \in BOOLEAN :
       \E answer \in (IF configured THEN TokenAnswers ELSE {"refused"}) :
         SearchStep([(IF configured THEN get_access_token(search, answer) ELSE search)
                       EXCEPT !.pc = "is_configured", !.configured = configured],
                    "spotify_client")
  /\ UNCHANGED search_results

\* perform_search, lines 55-59: spotify_client.is_configured.  The
\* SpotifyClient of src/utils sets no such attribute, so reading it raises
\* AttributeError; a client that has it tells whether the credentials are set.
CheckConfigured ==
  /\ search.pc = "is_configured"
  /\ \E attribute \in {"present", "absent"} :
       IF attribute = "absent"
       THEN SearchStep(except_spotify(search), "error_spotify")
       ELSE IF search.configured
            THEN SearchStep(search_enter(search), "spotify_search")
            ELSE SearchStep(after_spotify(search), "warn_spotify_not_configured")
  /\ UNCHANGED search_results

\* SpotifyClient.search, lines 58-93: the request and what its answer leads to
SpotifyGet ==
  /\ search.pc = "spotify_get"
  /\ \E answer \in SearchAnswers :
       LET c == [search EXCEPT !.requests = @ + 1] IN
       IF answer = "200"
       THEN \E list \in SpotifyLists :
              SearchStep(spotify_returns([c EXCEPT !.spotify_got = list], list),
                         "spotify_200")
       ELSE IF answer = "401"
            THEN SearchStep([c EXCEPT !.pc = "refresh"], "spotify_401")
            ELSE SearchStep(spotify_returns(c, <<>>), "spotify_failed")
  /\ UNCHANGED search_results

\* SpotifyClient.search, lines 82-87: the refresh after a 401, and the retry
SpotifyRefresh ==
  /\ search.pc = "refresh"
  /\ \E answer \in TokenAnswers :
       LET c == [get_access_token(search, answer) EXCEPT !.refreshes = @ + 1] IN
       IF answer = "granted"
       THEN SearchStep(search_retry(c), "spotify_retry")
       ELSE SearchStep(spotify_returns(c, <<>>), "spotify_refresh_failed")
  /\ UNCHANGED search_results

\* perform_search, lines 64-70: YouTubeClient().search(query)
YouTubeSearch ==
  /\ search.pc = "youtube"
  /\ \E list \in YouTubeLists :
       SearchStep([search EXCEPT !.requests = @ + 1,
                                 !.youtube_got = list,
                                 !.results["youtube"] = list,
                                 !.pc = "return"],
                  "youtube_search")
  /\ UNCHANGED search_results

\* perform_search returns; render_search keeps the results in the session
SearchReturn ==
  /\ search.pc = "return"
  /\ SearchStep([search EXCEPT !.pc = "idle"], "perform_search_returned")
  /\ search_results' = search.results

SearchNext ==
  \/ ClearPage
  \/ SubmitSearch
  \/ SpotifyClientInit
  \/ CheckConfigured
  \/ SpotifyGet
  \/ SpotifyRefresh
  \/ YouTubeSearch
  \/ SearchReturn

SearchSpec == Init /\ [][SearchNext]_vars

(* ------------------------- the AudioManager alone -------------------- *)

\* The AudioManager under every sequence of calls of its methods, those
\* included that the pages never make (stop, cleanup), and the volume slider
\* of the player.

\* the tracks play is called with
AudioTracks == {LocalTrack(i) : i \in 1..NumLocal} \cup {playable_track(YouTubeResult(1))}

\* the levels set_volume is called with, below 0.0 and above 1.0 included
VolumeInputs == {-5, 0, 7, FullVolume, FullVolume + 6}

\* the levels the slider of the player can be moved to
SliderLevels == {0, 10, FullVolume}

\* a call made on the AudioManager of the session
AudioRun(r) ==
  /\ events = <<>>
  /\ Commit(r)

CallPlay ==
  \E track \in AudioTracks, loads \in BOOLEAN :
     AudioRun(AudioManager_play(S, track, loads))

CallPause == AudioRun(AudioManager_pause(S))

CallResume == AudioRun(AudioManager_resume(S))

CallStop == AudioRun(AudioManager_stop(S))

CallCleanup == AudioRun(AudioManager_cleanup(S))

CallSetVolume ==
  \E level \in VolumeInputs : AudioRun(AudioManager_set_volume(S, level))

\* render_player, lines 89-94: the slider moved; its callback runs, then the
\* script
MoveVolumeSlider ==
  /\ current_track # None
  /\ \E volume_slider \in SliderLevels : PageRun(set_volume(S, volume_slider))

AudioNext ==
  \/ ClearPage
  \/ LibraryPlaySingle
  \/ CallPlay
  \/ CallPause
  \/ CallResume
  \/ CallStop
  \/ CallCleanup
  \/ CallSetVolume
  \/ MoveVolumeSlider

AudioSpec == Init /\ [][AudioNext]_vars

(* ------------------------------ the claims --------------------------- *)

\* the run just ended called next_track and no other command
OnlyNext == NextCalls(events) > 0 /\ Ops(events) \cap OtherCommands = {}

\* C1: after any sequence of commands the queue is empty or
\* current_track_index is a position of the queue.
C1_IndexInQueue ==
  current_playlist = <<>> \/ current_track_index \in Positions(current_playlist)

\* C1 witness: next_track has moved the index to the last position of a queue
\* of two or more tracks
C1_Witness ==
  /\ "next_track" \in Ops(events)
  /\ Len(current_playlist) >= 2
  /\ current_track_index = Len(current_playlist) - 1

\* C2: with repeat mode off, the k-th next_track call in a row that began at
\* index 0 leaves the index at k while k < len(queue) and reports nothing;
\* the len(queue)-th call reports the end of the queue and leaves the index
\* at len(queue) - 1.
C2_NextReachesEnd ==
  (/\ OnlyNext
   /\ repeat_mode = "off"
   /\ current_playlist # <<>>
   /\ streak >= 1
   /\ streak <= Len(current_playlist))
  => IF streak < Len(current_playlist)
     THEN /\ current_track_index = streak
          /\ "warn_end_of_playlist" \notin Ops(events)
     ELSE /\ current_track_index = Len(current_playlist) - 1
          /\ "warn_end_of_playlist" \in Ops(events)

\* C2 witness: the last of len(queue) calls in a row on a queue of two or more
C2_Witness ==
  /\ OnlyNext
  /\ repeat_mode = "off"
  /\ Len(current_playlist) >= 2
  /\ streak = Len(current_playlist)
  /\ "warn_end_of_playlist" \in Ops(events)

\* C3: with repeat mode playlist, len(queue) next_track calls in a row from
\* index 0 bring the index back to 0 (the k-th call before that leaves it at
\* k), and no next_track call under that mode reports the end of the queue.
C3_PlaylistRepeatWraps ==
  (/\ NextCalls(events) > 0
   /\ repeat_mode = "playlist"
   /\ current_playlist # <<>>)
  => /\ "warn_end_of_playlist" \notin Ops(events)
     /\ (OnlyNext /\ streak >= 1 /\ streak <= Len(current_playlist))
        => current_track_index = streak % Len(current_playlist)

\* C3 witness: the wrap, on a queue of two or more
C3_Witness ==
  /\ OnlyNext
  /\ repeat_mode = "playlist"
  /\ Len(current_playlist) >= 2
  /\ streak = Len(current_playlist)
  /\ current_track_index = 0

\* the backend is asked to load and play the track: audio_manager.play_track
AsksToPlay(evs, track) == \E k \in 1..Len(evs) : evs[k] = Ev("am_play", track)

\* the backend calls of a run
BackendCalls(evs) == Ops(evs) \cap {"am_play", "am_pause", "am_resume"}

\* C4: with repeat mode track, a next_track(autoplay=True) leaves the index,
\* the current track and the queue as they were and asks the backend to load
\* and play that same track again, at every index of every non-empty queue.
C4_TrackRepeatReplays ==
  [][(/\ "next_track_auto" \in Ops(events')
      /\ Ops(events') \cap OtherCommands = {}
      /\ repeat_mode = "track"
      /\ current_playlist # <<>>)
     => /\ current_track_index' = current_track_index
        /\ current_track' = current_track
        /\ current_playlist' = current_playlist
        /\ NextCalls(events') = 1
        /\ BackendCalls(events') = {"am_play"}
        /\ AsksToPlay(events', current_track)]_vars

\* C4 witness: the replay at the last index of a queue of two or more, where
\* a next_track without the rule would stop
C4_Witness ==
  /\ "next_track_auto" \in Ops(events)
  /\ Ops(events) \cap OtherCommands = {}
  /\ repeat_mode = "track"
  /\ Len(current_playlist) >= 2
  /\ current_track_index = Len(current_playlist) - 1
  /\ AsksToPlay(events, current_track)

\* C5: a manual next_track under repeat mode track, with the index not at the
\* last position, moves the index on by one and makes the queue's element
\* there the current track.
C5_ManualNextAdvances ==
  [][(/\ "next_track" \in Ops(events')
      /\ repeat_mode = "track"
      /\ current_track_index + 1 < Len(current_playlist))
     => /\ current_track_index' = current_track_index + 1
        /\ current_track' = At(current_playlist, current_track_index + 1)
        /\ current_playlist' = current_playlist]_vars

\* C5 witness: the manual next under repeat mode track has advanced
C5_Witness ==
  /\ "next_track" \in Ops(events)
  /\ repeat_mode = "track"
  /\ current_track_index >= 1
  /\ current_track = At(current_playlist, current_track_index)

\* C6: a next_track that reports the end of the queue stops playback and
\* leaves is_playing false.
C6_EndOfQueueStops ==
  "warn_end_of_playlist" \in Ops(events)
  => /\ ~is_playing
     /\ ~audio_manager.is_playing

\* C7: previous_track with the index above 0 moves it back by one and makes
\* the queue's element there the current track; at index 0 it reports
\* "already at first track", calls nothing of the backend and leaves queue,
\* index, current track and is_playing as they were.
C7_Previous ==
  [][("previous_track" \in Ops(events'))
     => IF current_track_index > 0
        THEN /\ current_track_index' = current_track_index - 1
             /\ current_track' = At(current_playlist, current_track_index - 1)
             /\ current_playlist' = current_playlist
        ELSE /\ "warn_already_first" \in Ops(events')
             /\ BackendCalls(events') = {}
             /\ audio_manager' = audio_manager
             /\ UNCHANGED <<current_playlist, current_track_index, current_track,
                            is_playing>>]_vars

\* C7 witness: previous_track refused at index 0 of a queue of two or more
C7_Witness ==
  /\ "warn_already_first" \in Ops(events)
  /\ Len(current_playlist) >= 2
  /\ current_track_index = 0

\* how often a list holds the track
Occurrences(list, track) == Cardinality({k \in 1..Len(list) : list[k] = track})

\* two lists hold the same tracks the same number of times
SameMultiset(a, b) ==
  /\ Len(a) = Len(b)
  /\ \A k \in 1..Len(a) : Occurrences(a, a[k]) = Occurrences(b, a[k])

\* C8: shuffle_playlist on a non-empty queue leaves a permutation of the
\* queue (same length, every track as often as before), and the queue's
\* element at the new index equals the track that was current before.
C8_ShufflePermutes ==
  [][("shuffle_playlist" \in Ops(events') /\ current_playlist # <<>>)
     => /\ SameMultiset(current_playlist, current_playlist')
        /\ current_track_index' \in Positions(current_playlist')
        /\ At(current_playlist', current_track_index') = current_track
        /\ current_track' = current_track]_vars

\* C8 witness: a shuffle after which the current track stands at another
\* position than the first, in a queue of two or more
C8_Witness ==
  /\ "shuffle_playlist" \in Ops(events)
  /\ Len(current_playlist) >= 2
  /\ current_track_index >= 1
  /\ At(current_playlist, 0) # current_track

\* the successor in off -> playlist -> track -> off
NextMode(mode) ==
  CASE mode = "off" -> "playlist"
    [] mode = "playlist" -> "track"
    [] mode = "track" -> "off"

\* C9: the repeat mode is always one of off, playlist, track; a toggle moves
\* it to its successor in off -> playlist -> track -> off, so that three
\* toggles restore it, and changes nothing of queue, index and current track.
C9_ToggleCycles ==
  /\ [](/\ repeat_mode \in {"off", "playlist", "track"}
        /\ toggle_repeat(toggle_repeat(toggle_repeat(S))).repeat_mode = repeat_mode)
  /\ [][("toggle_repeat" \in Ops(events'))
        => /\ repeat_mode' = NextMode(repeat_mode)
           /\ UNCHANGED <<current_playlist, current_track_index, current_track>>]_vars

\* C9 witness: a toggle has brought the mode back to off
C9_Witness ==
  /\ "toggle_repeat" \in Ops(events)
  /\ repeat_mode = "off"

PlayCommands ==
  {"play_single_track", "play_artist_tracks", "play_playlist",
   "shuffle_and_play_playlist", "play_track_from_playlist", "play_track_from_search"}

\* the run carried out a play command and nothing moved the queue after it
PlayedOnly(evs) ==
  /\ Ops(evs) \cap PlayCommands # {}
  /\ "warn_playlist_empty" \notin Ops(evs)
  /\ "next_track_auto" \notin Ops(evs)

\* the lists the library views hand to play_artist_tracks
LibraryLists ==
  {local_library} \cup {album_tracks(local_library, a) : a \in Albums(local_library)}

\* a handler's result r holds exactly this queue and index, current track there
QueueIs(r, tracks, index) ==
  /\ r.current_playlist = tracks
  /\ r.current_track_index = index
  /\ r.current_track = At(tracks, index)

\* C11: a play command replaces the queue wholesale: play-single (library or
\* search) leaves exactly [track] and index 0, play-artist/album and
\* play-playlist leave exactly the given tracks in their order and index 0,
\* play-from-playlist at K leaves the playlist's tracks and index K; the
\* current track is the queue's element at the index; nothing of the queue
\* before remains.
C11_PlayReplacesQueue ==
  /\ [](/\ \A k \in 1..Len(local_library) :
             QueueIs(play_single_track(S, local_library[k]), <<local_library[k]>>, 0)
        /\ \A tracks \in LibraryLists \ {<<>>} :
             QueueIs(play_artist_tracks(S, tracks), tracks, 0)
        /\ \A track \in SearchResults :
             QueueIs(play_track_from_search(S, track, FALSE),
                     <<playable_track(track)>>, 0)
        /\ \A name \in DOMAIN playlists :
             /\ playlists[name] # <<>>
                => QueueIs(play_playlist(S, name), playlists[name], 0)
             /\ \A index \in Positions(playlists[name]) :
                  QueueIs(play_track_from_playlist(S, At(playlists[name], index),
                                                   name, index),
                          playlists[name], index))
  /\ [][PlayedOnly(events')
        => /\ current_playlist' # <<>>
           /\ current_track_index' \in Positions(current_playlist')
           /\ current_track' = At(current_playlist', current_track_index')
           /\ Ops(events') \cap {"play_single_track", "play_track_from_search"} # {}
              => /\ current_playlist' = <<events'[1].track>>
                 /\ current_track_index' = 0
           /\ "play_artist_tracks" \in Ops(events')
              => /\ current_playlist' \in LibraryLists'
                 /\ current_track_index' = 0
           /\ "play_playlist" \in Ops(events')
              => /\ \E name \in DOMAIN playlists : current_playlist' = playlists[name]
                 /\ current_track_index' = 0
           /\ "shuffle_and_play_playlist" \in Ops(events')
              => /\ \E name \in DOMAIN playlists :
                      SameMultiset(current_playlist', playlists[name])
                 /\ current_track_index' = 0
           /\ "play_track_from_playlist" \in Ops(events')
              => /\ \E name \in DOMAIN playlists : current_playlist' = playlists[name]
                 /\ current_track' = events'[1].track]_vars

\* C11 witness: a row's play button made a playlist of two the queue, at the
\* index of the row
C11_Witness ==
  /\ PlayedOnly(events)
  /\ "play_track_from_playlist" \in Ops(events)
  /\ Len(current_playlist) >= 2
  /\ current_track_index = 1
  /\ \A k \in 1..Len(current_playlist) : current_playlist[k].shape = "playlist"

\* C12: every play command that is carried out has the backend asked to load
\* and play the track at the new index before its run ends.
C12_PlayAsksBackend ==
  PlayedOnly(events) => AsksToPlay(events, current_track)

\* C13: after every completed command is_playing is true exactly when the
\* AudioManager is in its playing state.
C13_FlagMirrorsBackend ==
  events # <<>> => (is_playing <=> audio_manager.is_playing)

\* the commands of the player that load a track
LoadingCommands ==
  {"next_track", "next_track_auto", "previous_track", "queue_select", "play_click"}

\* C14: when the backend fails to load the target track during next, previous,
\* queue-entry selection or play, queue and index are as before the command
\* and is_playing is false.
C14_LoadErrorKeepsState ==
  [][(/\ "am_failed" \in Ops(events')
      /\ Ops(events') \cap LoadingCommands # {}
      /\ Ops(events') \cap PlayCommands = {})
     => /\ current_playlist' = current_playlist
        /\ current_track_index' = current_track_index
        /\ ~is_playing']_vars

\* C15: selecting queue entry i, a position of the queue, sets the index to i
\* and the current track to the queue's element there and has the backend
\* asked to load and play it, the queue unchanged; for a position outside the
\* queue, and so for every position of an empty queue, no selection happens
\* and no backend call is made.
C15_QueueSelect ==
  /\ [](\A i \in 0..MaxQueueLen : \A loads \in BOOLEAN :
          LET r == queue_section(S, "queue", i, loads) IN
          IF i \in Positions(current_playlist)
          THEN ~is_playing
               => /\ QueueIs(r, current_playlist, i)
                  /\ BackendCalls(r.events) = {"am_play"}
                  /\ AsksToPlay(r.events, At(current_playlist, i))
          ELSE /\ "queue_select" \notin Ops(r.events)
               /\ BackendCalls(r.events) = {}
               /\ r.current_playlist = current_playlist
               /\ r.current_track_index = current_track_index
               /\ r.current_track = current_track
               /\ r.is_playing = is_playing
               /\ r.audio_manager = audio_manager)
  /\ [][("queue_select" \in Ops(events'))
        => /\ current_playlist' = current_playlist
           /\ current_track_index' \in Positions(current_playlist)
           /\ current_track' = At(current_playlist, current_track_index')
           /\ AsksToPlay(events', current_track')]_vars

\* C15 witness: a queue button moved the index from 0 to 1
C15_Witness ==
  /\ "queue_select" \in Ops(events)
  /\ Ops(events) \cap LoadingCommands = {"queue_select"}
  /\ current_track_index = 1
  /\ streak = -1

\* C16: resume (the play button, play_track(resume=True)) never has a track
\* loaded; with the backend paused it continues the track, and with nothing
\* paused in the backend it changes nothing of the backend and of is_playing,
\* queue and index.
C16_ResumeNeverLoads ==
  [][("play_click" \in Ops(events'))
     => /\ "am_play" \notin Ops(events')
        /\ current_playlist' = current_playlist
        /\ current_track_index' = current_track_index
        /\ IF audio_manager.is_initialized /\ audio_manager.is_paused
           THEN /\ audio_manager'.is_playing
                /\ audio_manager'.current_file = audio_manager.current_file
           ELSE /\ audio_manager' = audio_manager
                /\ is_playing' = is_playing]_vars

\* no two entries of the list have the same identity key
NoDuplicateKeys(list) ==
  \A i, j \in 1..Len(list) : list[i].key = list[j].key => i = j

\* C17: from a library without duplicate file paths, after any uploads (the
\* same file twice in one batch included) no two library tracks share a
\* file_path, and an upload leaves every entry the library held as it was.
C17_UploadDeduplicates ==
  /\ [](NoDuplicateKeys(local_library))
  /\ [][/\ Len(local_library') >= Len(local_library)
        /\ \A k \in 1..Len(local_library) :
              \E j \in 1..Len(local_library') : local_library'[j] = local_library[k]]_vars

\* C17 witness: one batch held the same file twice; the first was added, the
\* second refused, though its album tag differs
C17_Witness ==
  \E i, j \in 1..Len(events) :
     /\ i < j
     /\ events[i].op = "added_to_library"
     /\ events[j].op = "warn_already_exists"
     /\ events[j].track.key = events[i].track.key
     /\ events[j].track.album # events[i].track.album
     /\ \E k \in 1..Len(local_library) : local_library[k] = events[i].track

\* the steps by which a run creates a playlist
CreateCommands == {"create_playlist_form", "create_template_playlist"}

\* C18: creating a playlist, by the form or by a template, under a name the
\* store holds fails with an error and leaves the store as it was, the
\* playlist's tracks included; under a new name it adds exactly one empty
\* playlist and leaves every other playlist as it was.
C18_CreatePlaylist ==
  /\ [](\A name \in (FormNames \cup PlaylistNames) \ {""} :
          \A r \in {create_playlist_form(S, name)} \cup
                   (IF name \in PlaylistNames
                    THEN {create_template_playlist(S, name)} ELSE {}) :
             IF name \in DOMAIN playlists
             THEN /\ "error_playlist_exists" \in Ops(r.events)
                  /\ r.playlists = playlists
                  /\ r.playlists_file = playlists_file
             ELSE /\ "error_playlist_exists" \notin Ops(r.events)
                  /\ DOMAIN r.playlists = DOMAIN playlists \cup {name}
                  /\ r.playlists[name] = <<>>
                  /\ \A n \in DOMAIN playlists : r.playlists[n] = playlists[n])
  /\ [][(Ops(events') \cap CreateCommands # {})
        => IF Ops(events') \cap {"error_playlist_exists", "error_enter_name"} # {}
           THEN UNCHANGED <<playlists, playlists_file>>
           ELSE /\ Cardinality(DOMAIN playlists' \ DOMAIN playlists) = 1
                /\ \A n \in DOMAIN playlists' \ DOMAIN playlists : playlists'[n] = <<>>
                /\ \A n \in DOMAIN playlists :
                      n \in DOMAIN playlists' /\ playlists'[n] = playlists[n]]_vars

\* C18 witness: the template of a playlist that holds a track was refused,
\* the track still there
C18_Witness ==
  /\ "create_template_playlist" \in Ops(events)
  /\ "error_playlist_exists" \in Ops(events)
  /\ \E name \in PlaylistNames :
        name \in DOMAIN playlists /\ playlists[name] # <<>>

\* C19: no playlist holds two tracks of the same provider id, and adding a
\* track a playlist holds leaves the playlists as they were; a track it does
\* not hold goes to the end of that playlist alone.
C19_AddDeduplicates ==
  /\ [](\A name \in DOMAIN playlists : NoDuplicateKeys(playlists[name]))
  /\ [][("add_track_to_playlist" \in Ops(events'))
        => LET data == events'[1].track IN
           IF "warn_track_exists" \in Ops(events')
           THEN /\ playlists' = playlists
                /\ \E name \in DOMAIN playlists :
                      \E k \in 1..Len(playlists[name]) : playlists[name][k].key = data.key
           ELSE \E name \in DOMAIN playlists :
                  /\ \A k \in 1..Len(playlists[name]) : playlists[name][k].key # data.key
                  /\ playlists' = [playlists EXCEPT ![name] = Append(@, data)]]_vars

\* C19 witness: an add was refused for a playlist of two tracks
C19_Witness ==
  /\ "warn_track_exists" \in Ops(events)
  /\ \E name \in DOMAIN playlists :
        /\ Len(playlists[name]) = 2
        /\ playlists[name][2].key = events[1].track.key

\* the run changed the playlists
PlaylistMutation(evs) ==
  \/ "save_playlists" \in Ops(evs)
  \/ "add_track_to_playlist" \in Ops(evs) /\ "warn_track_exists" \notin Ops(evs)

\* the run changed the library
LibraryMutation(evs) == "added_to_library" \in Ops(evs)

\* C20: after every completed mutation of the playlists the playlists file
\* holds the playlists of the session, and after every completed mutation of
\* the library the library file holds the library of the session.
C20_FilesFollowMemory ==
  /\ PlaylistMutation(events) => playlists_file = playlists
  /\ LibraryMutation(events) => library_file = local_library

\* every track a list holds at some place is held by the other list
HeldBy(list, other) ==
  \A k \in 1..Len(list) : \E j \in 1..Len(other) : other[j] = list[k]

\* C21: the playlists of the playlists file are the session's from its start:
\* whatever playlist the file holds, the session holds under the same name
\* with the file's tracks, so that a rewrite of the file loses none of them.
C21_PlaylistsLoaded ==
  \A name \in DOMAIN playlists_file :
     /\ name \in DOMAIN playlists
     /\ HeldBy(playlists_file[name], playlists[name])

\* the steps by which a run edits a playlist's tracks
PlaylistEdits == {"move_track_up", "remove_track_from_playlist", "add_track_to_playlist"}

\* the steps by which a run reorders or walks the queue
QueueCommands ==
  {"shuffle_playlist", "next_track", "next_track_auto", "previous_track", "queue_select"}

\* what editing the playlists can come to from the state at hand
EditResults ==
  UNION {UNION {{move_track_up(S, name, index),
                 remove_track_from_playlist(S, name, index)}
                : index \in Positions(playlists[name])}
         : name \in DOMAIN playlists}
  \cup {add_track_to_playlist_form(S, track, "youtube", name)
        : track \in SearchResults, name \in DOMAIN playlists}

\* what shuffling or walking the queue can come to from the state at hand
QueueResults ==
  {shuffle_playlist(S, perm) : perm \in Orders(Len(current_playlist))}
  \cup {next_track(S, FALSE, FALSE), previous_track(S, FALSE)}
  \cup {queue_section(S, "queue", i, FALSE) : i \in 0..MaxQueueLen}

\* C22: the queue and the playlists are distinct: moving or removing a track
\* of a playlist, or adding one to it, leaves the queue and the index as they
\* were, a queue made from that playlist included; shuffling or walking the
\* queue leaves every playlist, and the playlists file, as it was.
C22_QueueApartFromPlaylists ==
  /\ [](/\ \A r \in EditResults :
              /\ r.current_playlist = current_playlist
              /\ r.current_track_index = current_track_index
        /\ \A r \in QueueResults :
              /\ r.playlists = playlists
              /\ r.playlists_file = playlists_file)
  /\ [][/\ (Ops(events') \cap PlaylistEdits # {} /\ "next_track_auto" \notin Ops(events'))
           => UNCHANGED <<current_playlist, current_track_index, current_track>>
        /\ (Ops(events') \cap QueueCommands # {})
           => UNCHANGED <<playlists, playlists_file>>]_vars

\* C22 witness: a track of a playlist was moved up while the queue held the
\* playlist as "Play All" or a row's play button had copied it
C22_Witness ==
  /\ Ops(events) = {"move_track_up", "save_playlists"}
  /\ Len(current_playlist) = 2
  /\ \E name \in DOMAIN playlists :
        /\ playlists[name] # current_playlist
        /\ playlists[name] = Swapped(current_playlist, 0, 1)

\* a perform_search call has returned in the run just ended
Searched == search.pc = "idle" /\ "perform_search_returned" \in Ops(events)

\* the ways the Spotify block of a search comes to nothing
SpotifyFailures ==
  {"error_spotify", "warn_spotify_not_configured", "spotify_failed",
   "spotify_refresh_failed"}

\* C23: perform_search never raises; what it returns has an entry for spotify
\* and one for youtube; the YouTube provider is asked whenever it is selected,
\* whatever became of the Spotify block (exception, no credentials, no token,
\* error answer), and its entry is the list it returned; the spotify entry is
\* the list Spotify returned, whatever YouTube returned; a provider that
\* failed or was not asked contributes the empty list.
C23_SearchFaultIsolated ==
  /\ search.pc # "raised"
  /\ Searched
     => /\ DOMAIN search_results = Providers
        /\ search.include_youtube => "youtube_search" \in Ops(events)
        /\ search.include_spotify => "spotify_client" \in Ops(events)
        /\ search_results["youtube"] =
              (IF search.include_youtube THEN search.youtube_got ELSE <<>>)
        /\ search_results["spotify"] =
              (IF search.include_spotify THEN search.spotify_got ELSE <<>>)
        /\ Ops(events) \cap SpotifyFailures # {} => search_results["spotify"] = <<>>

\* C23 witness: the Spotify block raised and the search returned what
\* YouTube found
C23_Witness ==
  /\ Searched
  /\ "error_spotify" \in Ops(events)
  /\ search_results["spotify"] = <<>>
  /\ search_results["youtube"] # <<>>

\* C29: one SpotifyClient.search makes a bounded number of requests: a 401
\* leads to at most one token refresh and one retry of the search, so no more
\* than two calls of search are ever nested, however the server answers.
C29_OneRefreshOneRetry ==
  /\ search.refreshes <= 1
  /\ search.frames <= 2

\* every load of the run is followed at once by the setting of the music
\* volume and then by the start of playback
VolumeBetweenLoadAndPlay(evs) ==
  \A i \in 1..Len(evs) :
     evs[i].op = "mixer_load"
     => /\ i + 2 <= Len(evs)
        /\ evs[i + 1].op = "mixer_set_volume"
        /\ evs[i + 2].op = "mixer_play"

\* C24: set_volume(v) stores v clamped to [0.0, 1.0] for every v, so the
\* stored volume is always in that range, and passes it on to the backend;
\* every successful load sets the backend's volume to the stored volume after
\* the load and before playback starts.
C24_VolumeClampedReapplied ==
  /\ [](/\ audio_manager.volume \in 0..FullVolume
        /\ \A v \in VolumeInputs :
              LET r == AudioManager_set_volume(S, v) IN
              /\ AudioManager_get_volume(r) =
                    (IF v < 0 THEN 0 ELSE IF v > FullVolume THEN FullVolume ELSE v)
              /\ audio_manager.is_initialized
                 => r.music_volume = AudioManager_get_volume(r))
  /\ [][("mixer_load" \in Ops(events'))
        => /\ VolumeBetweenLoadAndPlay(events')
           /\ audio_manager'.volume = audio_manager.volume
           /\ music_volume' = audio_manager.volume]_vars

\* C24 witness: a track was loaded and started at the volume a set_volume
\* below the range had left
C24_Witness ==
  /\ "mixer_play" \in Ops(events)
  /\ audio_manager.volume = 0
  /\ music_volume = 0
  /\ audio_manager.is_playing

\* C30: is_playing and is_paused are never both true; is_paused is true only
\* while a file is loaded; pause changes the AudioManager only when it plays
\* and resume only when it is paused.
C30_PlayingPausedExclusive ==
  /\ ~(audio_manager.is_playing /\ audio_manager.is_paused)
  /\ audio_manager.is_paused => audio_manager.current_file # 0
  /\ ~audio_manager.is_playing => AudioManager_pause(S).audio_manager = audio_manager
  /\ ~audio_manager.is_paused => AudioManager_resume(S).audio_manager = audio_manager
  /\ audio_manager.is_playing /\ audio_manager.is_initialized
     => AudioManager_pause(S).audio_manager.is_paused
  /\ audio_manager.is_paused /\ audio_manager.is_initialized
     => AudioManager_resume(S).audio_manager.is_playing

\* C30 witness: a play that failed found the AudioManager paused and left it so
C30_Witness ==
  /\ "am_failed" \in Ops(events)
  /\ audio_manager.is_paused
  /\ ~audio_manager.is_playing
  /\ audio_manager.current_file # 0

\* C25: whenever the queue is not empty, the current track is the queue's
\* element at current_track_index, after every sequence of play commands,
\* next, previous, shuffle, queue selection and repeat toggles, queues that
\* hold equal tracks more than once included.
C25_CurrentTrackAtIndex ==
  current_playlist # <<>>
  => /\ current_track_index \in Positions(current_playlist)
     /\ current_track = At(current_playlist, current_track_index)

\* C25 witness: a shuffle of a queue that holds the current track twice
C25_Witness ==
  /\ "shuffle_playlist" \in Ops(events)
  /\ Len(current_playlist) >= 2
  /\ Cardinality(Matches(current_playlist, current_track)) >= 2

\* render_player in a run that no widget caused, up to the queue section
RenderTick == secondary_buttons(transport_buttons(S, "none", FALSE), "none", <<>>)

\* C27: whenever a track is current and the queue is not empty, a run that
\* renders the player draws the button of every queue entry, also while
\* is_playing is true.
C27_QueueButtonsDrawn ==
  (current_track # None /\ current_playlist # <<>> /\ ~song_finished)
  => queue_buttons(RenderTick) = Positions(current_playlist)

\* C28: with one button true per run, pressing "Yes, Delete" after Delete
\* removes that playlist from the store and the file and leaves the others
\* as they were; pressing "Confirm Rename" after Rename with a name the store
\* does not hold moves the tracks to the new name.
C28_ConfirmedDeleteAndRename ==
  /\ [][("click_confirm_delete" \in Ops(events'))
        => \A name \in DOMAIN playlists :
             IF <<"confirm_delete", name>> \in confirm_buttons
             THEN /\ name \notin DOMAIN playlists'
                  /\ name \notin DOMAIN playlists_file'
             ELSE /\ name \in DOMAIN playlists'
                  /\ playlists'[name] = playlists[name]]_vars
  /\ [][("click_confirm_rename" \in Ops(events'))
        => \A name \in DOMAIN playlists :
             <<"confirm_rename", name>> \in confirm_buttons
             => \/ name \notin DOMAIN playlists'
                \/ DOMAIN playlists' = DOMAIN playlists]_vars

\* the commands by which the user moves to another track
UserMoves ==
  PlayCommands \cup {"next_track", "previous_track", "queue_select"}

\* C26: a run that drains the pending flag advances from the track that
\* finished: the user has not moved to another track since the notification,
\* neither in a run before nor earlier in the same run.
C26_DrainOnFinishedTrack ==
  [][("next_track_auto" \in Ops(events'))
     => /\ current_track = finished_track
        /\ Ops(events') \cap UserMoves = {}]_vars

=============================================================================
